---- MODULE Spec2Model ----
(***************************************************************************)
(* The checkbox and radio widgets of iced_web (web/src/widget/checkbox.rs  *)
(* and web/src/widget/radio.rs): construction, the builder methods,        *)
(* Widget::node (rendering into a dodrio node) and the click listeners     *)
(* that node() attaches to the rendered input.                             *)
(*                                                                         *)
(* One widget value is alive at a time (the slot `widget`); rendering it   *)
(* appends a node to `nodes`, where the listeners stay clickable after the *)
(* widget is replaced.  Every step records the side effects it performed,  *)
(* in program order, in `effects`.                                         *)
(***************************************************************************)
EXTENDS Integers, Sequences, FiniteSets, TLC

\* ------------------------------------------------------------------ bounds
MaxWidgets == 2      \* widgets constructed in one behaviour
MaxNodes   == 2      \* nodes rendered in one behaviour
MaxClicks  == 2      \* click events dispatched in one behaviour

\* ------------------------------------------------------------------ inputs
\* enum Choice { A, B } of the Radio doc example: the value type V.
Choices == {"A", "B"}

\* Option<V>
None == [some |-> FALSE]
Some(v) == [some |-> TRUE, val |-> v]
Options == {None} \cup {Some(v) : v \in Choices}

\* F: Fn(bool) -> Message.  "CheckboxToggled" is the enum constructor of the
\* doc example; "Clicked" is a closure that ignores its argument.
ToggleFns == {"CheckboxToggled", "Clicked"}

\* F: Fn(V) -> Message.  "RadioSelected" is the enum constructor of the doc
\* example.
SelectFns == {"RadioSelected"}

\* The value a callback returns for an argument.
Call(f, arg) ==
    CASE f = "CheckboxToggled" -> [tag |-> "CheckboxToggled", b |-> arg]
      [] f = "Clicked"         -> [tag |-> "Clicked"]
      [] f = "RadioSelected"   -> [tag |-> "RadioSelected", v |-> arg]

CheckboxLabels == {"Toggle me!", "Toggle me too!"}
RadioLabels == {"This is A"}
Texts   == {"", "x"}                 \* arguments of id() and name()
Lengths == {"Shrink", "Fill"}        \* Length
Styles  == {"default", "custom"}     \* Box<dyn StyleSheet>

\* ----------------------------------------------------------- side effects
CallEffect(f, arg)  == [e |-> "call", f |-> f, arg |-> arg]
PublishEffect(msg)  == [e |-> "publish", msg |-> msg]
ScheduleEffect      == [e |-> "schedule_render"]

IsCall(x)     == x.e = "call"
IsPublish(x)  == x.e = "publish"
IsSchedule(x) == x.e = "schedule_render"

\* Bus::publish: enqueue the message for the application's update cycle.
Bus_publish(queue, msg) == Append(queue, msg)

\* dodrio VdomWeak::schedule_render: one more re-render requested.
schedule_render(n) == n + 1

\* Runs a listener's effects, in order, against the bus and the vdom.
RECURSIVE Run(_, _)
Run(fx, st) ==
    IF fx = <<>> THEN st
    ELSE LET x == Head(fx)
             nxt == IF IsPublish(x)
                       THEN [st EXCEPT !.bus = Bus_publish(st.bus, x.msg)]
                    ELSE IF IsSchedule(x)
                       THEN [st EXCEPT !.scheduled = schedule_render(st.scheduled)]
                    ELSE st
         IN Run(Tail(fx), nxt)

\* ------------------------------------------------------ external: css
\* css::Rule values registered by the widgets of one render pass.
Rule_Row == [rule |-> "Row"]
Rule_Spacing(n) == [rule |-> "Spacing", by |-> n]

RECURSIVE IndexOf(_, _, _)
IndexOf(s, x, i) ==
    IF i > Len(s) THEN 0
    ELSE IF s[i] = x THEN i
    ELSE IndexOf(s, x, i + 1)

\* Css::insert: registers the rule unless an identical one is registered
\* already, and returns its class token.
Css_insert(sheet, rule) ==
    LET at == IndexOf(sheet, rule, 1)
    IN IF at = 0
          THEN [sheet |-> Append(sheet, rule), class |-> Len(sheet) + 1]
          ELSE [sheet |-> sheet, class |-> at]

\* css::length: the CSS literal of a Length.
css_length(length) ==
    CASE length = "Shrink" -> "auto"
      [] length = "Fill"   -> "100%"

\* ------------------------------------------------------ external: dodrio
\* ElementBuilder::attr: one more attribute.
attr(attrs, name, value) == Append(attrs, <<name, value>>)

\* ElementBuilder::bool_attr: the attribute is added only when the flag is set.
bool_attr(attrs, name, flag) == IF flag THEN attr(attrs, name, "") ELSE attrs

HasAttr(attrs, name) == \E i \in 1..Len(attrs) : attrs[i][1] = name

\* ---------------------------------------------------------------- Checkbox
\* A constructor that evaluated the callback at once, as Radio::new does.
Checkbox_new_eager(is_checked, label, f) ==
    [ret |-> [kind |-> "checkbox",
              is_checked |-> is_checked,
              on_toggle |-> f,
              label |-> label,
              id |-> "",
              width |-> "Shrink",
              style |-> "default"],
     effects |-> << CallEffect(f, is_checked) >>]

\* Checkbox::new
Checkbox_new(is_checked, label, f) ==
    [ret |-> [kind |-> "checkbox",
              is_checked |-> is_checked,
              on_toggle |-> f,
              label |-> label,
              id |-> "",
              width |-> "Shrink",
              style |-> "default"],
     effects |-> <<>>]

\* Checkbox::width
Checkbox_width(self, width) == [self EXCEPT !.width = width]

\* Checkbox::style
Checkbox_style(self, style) == [self EXCEPT !.style = style]

\* A setter that rebuilt the struct and left width at its default.
Checkbox_id_resets_width(self, id) ==
    [self EXCEPT !.id = id, !.width = "Shrink"]

\* Checkbox::id
Checkbox_id(self, id) == [self EXCEPT !.id = id]

\* A listener that forgot the negation.
Checkbox_on_click_same_state(on_toggle, is_checked) ==
    LET msg == Call(on_toggle, is_checked)
    IN << CallEffect(on_toggle, is_checked),
          PublishEffect(msg),
          ScheduleEffect >>

\* A listener that requested the re-render before publishing.
Checkbox_on_click_schedule_first(on_toggle, is_checked) ==
    LET msg == Call(on_toggle, ~is_checked)
    IN << CallEffect(on_toggle, ~is_checked),
          ScheduleEffect,
          PublishEffect(msg) >>

\* The click listener of Checkbox::node, with the captures of the closure.
Checkbox_on_click(on_toggle, is_checked) ==
    LET msg == Call(on_toggle, ~is_checked)
    IN << CallEffect(on_toggle, ~is_checked),
          PublishEffect(msg),
          ScheduleEffect >>

\* Checkbox::node, the input element with its click listener.  The plausible
\* slip of attr() for bool_attr() leaves checked on every input.
Checkbox_input_always_checked(self) ==
    [tag |-> "input",
     attrs |-> attr(attr(attr(<<>>,
                 "type", "checkbox"),
                 "id", self.id),
                 "checked", ""),
     click |-> [on_toggle |-> self.on_toggle,
                is_checked |-> self.is_checked]]

Checkbox_input(self) ==
    LET checkbox_id == self.id
        on_toggle == self.on_toggle
        is_checked == self.is_checked
    IN [tag |-> "input",
        attrs |-> bool_attr(attr(attr(<<>>,
                    "type", "checkbox"),
                    "id", checkbox_id),
                    "checked", self.is_checked),
        click |-> [on_toggle |-> on_toggle, is_checked |-> is_checked]]

\* Checkbox::node
Checkbox_node(self, style_sheet) ==
    LET checkbox_label == self.label
        checkbox_id == self.id
        row == Css_insert(style_sheet, Rule_Row)
        spacing == Css_insert(row.sheet, Rule_Spacing(5))
        row_class == row.class
        spacing_class == spacing.class
    IN [node |->
          [tag |-> "label",
           attrs |-> attr(attr(attr(<<>>,
                       "for", checkbox_id),
                       "class", <<row_class, " ", spacing_class>>),
                       "style", <<"width: ", css_length(self.width),
                                  "; align-items: center">>),
           input |-> Checkbox_input(self),
           text |-> checkbox_label],
        style_sheet |-> spacing.sheet]

\* ------------------------------------------------------------------- Radio
\* A constructor that took any selection for this radio's.
Radio_new_any_selection(value, label, selected, f) ==
    [ret |-> [kind |-> "radio",
              is_selected |-> selected.some,
              on_click |-> Call(f, value),
              label |-> label,
              id |-> "",
              name |-> "",
              style |-> "default"],
     effects |-> << CallEffect(f, value) >>]

\* A constructor that built the message from the selection, not the value.
Radio_new_message_of_selection(value, label, selected, f) ==
    LET from == IF selected.some THEN selected.val ELSE value
    IN [ret |-> [kind |-> "radio",
                 is_selected |-> (Some(value) = selected),
                 on_click |-> Call(f, from),
                 label |-> label,
                 id |-> "",
                 name |-> "",
                 style |-> "default"],
        effects |-> << CallEffect(f, from) >>]

\* Radio::new
Radio_new(value, label, selected, f) ==
    [ret |-> [kind |-> "radio",
              is_selected |-> (Some(value) = selected),
              on_click |-> Call(f, value),
              label |-> label,
              id |-> "",
              name |-> "",
              style |-> "default"],
     effects |-> << CallEffect(f, value) >>]

\* Radio::style
Radio_style(self, style) == [self EXCEPT !.style = style]

\* Radio::name
Radio_name(self, name) == [self EXCEPT !.name = name]

\* Radio::id
Radio_id(self, id) == [self EXCEPT !.id = id]

\* A listener that requested a re-render as the checkbox's does.
Radio_on_click_schedules(on_click) ==
    << PublishEffect(on_click), ScheduleEffect >>

\* The click listener of Radio::node, with the capture of the closure.
Radio_on_click(on_click) == << PublishEffect(on_click) >>

\* Radio::node, the attributes of the label element.  With the styling of
\* the TODO wired in, the markup would follow the style sheet of the widget.
Radio_label_attrs_styled(self) ==
    attr(attr(<<>>,
      "style", <<"display: block; font-size: 20px", self.style>>),
      "for", self.id)

Radio_label_attrs(self) ==
    LET radio_id == self.id
    IN attr(attr(<<>>,
         "style", <<"display: block; font-size: 20px">>),
         "for", radio_id)

\* Radio::node, the input element with its click listener.  The plausible
\* slip of attr() for bool_attr() leaves checked on every input.
Radio_input_always_checked(self) ==
    [tag |-> "input",
     attrs |-> attr(attr(attr(attr(attr(<<>>,
                 "type", "radio"),
                 "id", self.id),
                 "name", self.name),
                 "style", "margin-right: 10px"),
                 "checked", ""),
     click |-> [on_click |-> self.on_click]]

Radio_input(self) ==
    LET radio_name == self.name
        radio_id == self.id
        on_click == self.on_click
    IN [tag |-> "input",
        attrs |-> bool_attr(attr(attr(attr(attr(<<>>,
                    "type", "radio"),
                    "id", radio_id),
                    "name", radio_name),
                    "style", "margin-right: 10px"),
                    "checked", self.is_selected),
        click |-> [on_click |-> on_click]]

\* Radio::node
Radio_node(self, style_sheet) ==
    LET radio_label == self.label
    IN [node |->
          [tag |-> "label",
           attrs |-> Radio_label_attrs(self),
           input |-> Radio_input(self),
           text |-> radio_label],
        style_sheet |-> style_sheet]

\* ------------------------------------------------------------------- state
VARIABLES
    widget,        \* the widget value alive now, or NoWidget
    args,          \* the constructor arguments that widget was built from
    built,         \* how many widgets have been constructed
    nodes,         \* the rendered nodes, each with the widget it was rendered from
    style_sheet,   \* the Css registry of the render pass
    bus,           \* the messages the Bus has received, in order
    scheduled,     \* how many re-renders have been requested of the vdom
    clicked,       \* the nodes the click events were dispatched to, in order
    publisher,     \* publisher[i]: the node whose listener published bus[i]
    requester,     \* requester[i]: the node whose listener requested re-render i
    effects        \* the side effects of the last operation, in program order

vars == <<widget, args, built, nodes, style_sheet, bus, scheduled, clicked,
          publisher, requester, effects>>

NoWidget == [kind |-> "none"]

Init ==
    /\ widget = NoWidget
    /\ args = NoWidget
    /\ built = 0
    /\ nodes = <<>>
    /\ style_sheet = <<>>
    /\ bus = <<>>
    /\ scheduled = 0
    /\ clicked = <<>>
    /\ publisher = <<>>
    /\ requester = <<>>
    /\ effects = <<>>

\* What a rendered node is configured by (the fields node() reads), kept with
\* the node for reference.
Checkbox_config(self) ==
    [is_checked |-> self.is_checked, label |-> self.label,
     id |-> self.id, width |-> self.width]

Radio_config(self) ==
    [is_selected |-> self.is_selected, label |-> self.label,
     id |-> self.id, name |-> self.name]

\* k copies of x
Repeat(x, k) == [i \in 1..k |-> x]

\* ----------------------------------------------------------------- actions
CheckboxNew ==
    /\ built < MaxWidgets
    /\ \E is_checked \in BOOLEAN, label \in CheckboxLabels, f \in ToggleFns :
         LET r == Checkbox_new(is_checked, label, f)
         IN /\ widget' = r.ret
            /\ args' = [kind |-> "checkbox", is_checked |-> is_checked,
                        label |-> label, f |-> f]
            /\ effects' = r.effects
    /\ built' = built + 1
    /\ UNCHANGED <<nodes, style_sheet, bus, scheduled, clicked, publisher,
                   requester>>

CheckboxWidth ==
    /\ widget.kind = "checkbox"
    /\ \E width \in Lengths : widget' = Checkbox_width(widget, width)
    /\ effects' = <<>>
    /\ UNCHANGED <<args, built, nodes, style_sheet, bus, scheduled, clicked,
                   publisher, requester>>

CheckboxStyle ==
    /\ widget.kind = "checkbox"
    /\ \E style \in Styles : widget' = Checkbox_style(widget, style)
    /\ effects' = <<>>
    /\ UNCHANGED <<args, built, nodes, style_sheet, bus, scheduled, clicked,
                   publisher, requester>>

CheckboxId ==
    /\ widget.kind = "checkbox"
    /\ \E id \in Texts : widget' = Checkbox_id(widget, id)
    /\ effects' = <<>>
    /\ UNCHANGED <<args, built, nodes, style_sheet, bus, scheduled, clicked,
                   publisher, requester>>

CheckboxRender ==
    /\ widget.kind = "checkbox"
    /\ Len(nodes) < MaxNodes
    /\ LET r == Checkbox_node(widget, style_sheet)
       IN /\ nodes' = Append(nodes, [kind |-> "checkbox", node |-> r.node,
                                     config |-> Checkbox_config(widget),
                                     args |-> args])
          /\ style_sheet' = r.style_sheet
    /\ effects' = <<>>
    /\ UNCHANGED <<widget, args, built, bus, scheduled, clicked, publisher,
                   requester>>

CheckboxClick ==
    /\ Len(clicked) < MaxClicks
    /\ \E n \in 1..Len(nodes) :
         /\ nodes[n].kind = "checkbox"
         /\ LET c == nodes[n].node.input.click
                fx == Checkbox_on_click(c.on_toggle, c.is_checked)
                st == Run(fx, [bus |-> bus, scheduled |-> scheduled])
            IN /\ bus' = st.bus
               /\ scheduled' = st.scheduled
               /\ publisher' = publisher \o Repeat(n, Len(st.bus) - Len(bus))
               /\ requester' = requester \o Repeat(n, st.scheduled - scheduled)
               /\ effects' = fx
         /\ clicked' = Append(clicked, n)
    /\ UNCHANGED <<widget, args, built, nodes, style_sheet>>

RadioNew ==
    /\ built < MaxWidgets
    /\ \E value \in Choices, label \in RadioLabels, selected \in Options,
          f \in SelectFns :
         LET r == Radio_new(value, label, selected, f)
         IN /\ widget' = r.ret
            /\ args' = [kind |-> "radio", value |-> value, label |-> label,
                        selected |-> selected, f |-> f]
            /\ effects' = r.effects
    /\ built' = built + 1
    /\ UNCHANGED <<nodes, style_sheet, bus, scheduled, clicked, publisher,
                   requester>>

RadioStyle ==
    /\ widget.kind = "radio"
    /\ \E style \in Styles : widget' = Radio_style(widget, style)
    /\ effects' = <<>>
    /\ UNCHANGED <<args, built, nodes, style_sheet, bus, scheduled, clicked,
                   publisher, requester>>

RadioName ==
    /\ widget.kind = "radio"
    /\ \E name \in Texts : widget' = Radio_name(widget, name)
    /\ effects' = <<>>
    /\ UNCHANGED <<args, built, nodes, style_sheet, bus, scheduled, clicked,
                   publisher, requester>>

RadioId ==
    /\ widget.kind = "radio"
    /\ \E id \in Texts : widget' = Radio_id(widget, id)
    /\ effects' = <<>>
    /\ UNCHANGED <<args, built, nodes, style_sheet, bus, scheduled, clicked,
                   publisher, requester>>

RadioRender ==
    /\ widget.kind = "radio"
    /\ Len(nodes) < MaxNodes
    /\ LET r == Radio_node(widget, style_sheet)
       IN /\ nodes' = Append(nodes, [kind |-> "radio", node |-> r.node,
                                     config |-> Radio_config(widget),
                                     args |-> args])
          /\ style_sheet' = r.style_sheet
    /\ effects' = <<>>
    /\ UNCHANGED <<widget, args, built, bus, scheduled, clicked, publisher,
                   requester>>

RadioClick ==
    /\ Len(clicked) < MaxClicks
    /\ \E n \in 1..Len(nodes) :
         /\ nodes[n].kind = "radio"
         /\ LET c == nodes[n].node.input.click
                fx == Radio_on_click(c.on_click)
                st == Run(fx, [bus |-> bus, scheduled |-> scheduled])
            IN /\ bus' = st.bus
               /\ scheduled' = st.scheduled
               /\ publisher' = publisher \o Repeat(n, Len(st.bus) - Len(bus))
               /\ requester' = requester \o Repeat(n, st.scheduled - scheduled)
               /\ effects' = fx
         /\ clicked' = Append(clicked, n)
    /\ UNCHANGED <<widget, args, built, nodes, style_sheet>>

Next ==
    \/ CheckboxNew
    \/ CheckboxWidth
    \/ CheckboxStyle
    \/ CheckboxId
    \/ CheckboxRender
    \/ CheckboxClick
    \/ RadioNew
    \/ RadioStyle
    \/ RadioName
    \/ RadioId
    \/ RadioRender
    \/ RadioClick

Spec == Init /\ [][Next]_vars

\* ------------------------------------------------------------- properties
\* How many entries of seq are x.
Count(seq, x) == Cardinality({i \in DOMAIN seq : seq[i] = x})

CheckboxNodes == {n \in DOMAIN nodes : nodes[n].kind = "checkbox"}
RadioNodes == {n \in DOMAIN nodes : nodes[n].kind = "radio"}

Calls(fx) == SelectSeq(fx, IsCall)
Publishes(fx) == SelectSeq(fx, IsPublish)
Schedules(fx) == SelectSeq(fx, IsSchedule)

\* C1: every click on the input of a checkbox rendered from
\* Checkbox::new(c, label, on_toggle) publishes the message on_toggle(!c):
\* every message a checkbox node has put on the bus is on_toggle(!c), every
\* click has put one there (also the second click on the same node), and the
\* listener calls on_toggle with !c and never with c.
C1_ClickPublishesToggleOfNegation ==
    /\ \A i \in DOMAIN bus :
         publisher[i] \in CheckboxNodes =>
           LET a == nodes[publisher[i]].args
           IN /\ bus[i] = Call(a.f, ~a.is_checked)
              /\ a.f = "CheckboxToggled" => bus[i] # Call(a.f, a.is_checked)
    /\ \A n \in CheckboxNodes : Count(publisher, n) >= Count(clicked, n)
    /\ (Publishes(effects) # <<>> /\ clicked[Len(clicked)] \in CheckboxNodes) =>
         LET a == nodes[clicked[Len(clicked)]].args
         IN \A k \in DOMAIN effects :
              IsCall(effects[k]) =>
                /\ effects[k].f = a.f
                /\ effects[k].arg = ~a.is_checked
                /\ effects[k].arg # a.is_checked

\* A checkbox node has been clicked twice in a row and both messages are on
\* the bus.
C1_Witness ==
    /\ Len(clicked) = 2
    /\ clicked[1] = clicked[2]
    /\ clicked[1] \in CheckboxNodes
    /\ Len(bus) = 2
    /\ nodes[clicked[1]].args.f = "CheckboxToggled"

\* The effects of one click on a checkbox: on_toggle called once, one
\* publish, one re-render request, the publish before the request.
OneCheckboxClick(fx) ==
    /\ Len(Calls(fx)) = 1
    /\ Len(Publishes(fx)) = 1
    /\ Len(Schedules(fx)) = 1
    /\ Len(fx) = 3
    /\ \A i, j \in DOMAIN fx :
         (IsPublish(fx[i]) /\ IsSchedule(fx[j])) => i < j

\* C2: each click on a rendered checkbox calls on_toggle once, publishes once
\* and requests one re-render, in that order; after k clicks on a checkbox
\* node the bus holds exactly k messages of that node and exactly k re-renders
\* have been requested by it.
C2_OnePublishOneSchedulePerClick ==
    /\ [](\A n \in CheckboxNodes :
            /\ Count(publisher, n) = Count(clicked, n)
            /\ Count(requester, n) = Count(clicked, n))
    /\ [](Len(bus) = Len(publisher) /\ scheduled = Len(requester))
    /\ [][CheckboxClick => OneCheckboxClick(effects')]_vars

\* Two clicks on checkbox nodes have been handled.
C2_Witness ==
    /\ Len(clicked) = 2
    /\ \A i \in DOMAIN clicked : clicked[i] \in CheckboxNodes
    /\ scheduled = 2
    /\ Len(bus) = 2
    /\ Len(effects) = 3

\* Whether the selection s is Some(v).
IsSomeOf(s, v) == s.some /\ s.val = v

\* C3: Radio::new(v, label, s, f) yields is_selected = (Some(v) == s), true
\* exactly when s is Some(v), and neither style, name, id nor node changes
\* it: it holds of the live widget and of every node rendered from one.
C3_IsSelectedIffSomeValue ==
    /\ widget.kind = "radio" =>
         (widget.is_selected <=> IsSomeOf(args.selected, args.value))
    /\ \A n \in RadioNodes :
         nodes[n].config.is_selected
           <=> IsSomeOf(nodes[n].args.selected, nodes[n].args.value)

\* A selected radio that has been through style, name, id and node.
C3_Witness ==
    /\ widget.kind = "radio"
    /\ widget.is_selected
    /\ widget.style = "custom" /\ widget.name = "x" /\ widget.id = "x"
    /\ \E n \in RadioNodes : nodes[n].args = args /\ nodes[n].config.id = "x"

\* C4: every click on a rendered radio publishes f(v), with f and v the
\* arguments of the Radio::new that built the widget, whatever happened
\* between construction and click.
C4_RadioPublishesConstructionMessage ==
    /\ \A i \in DOMAIN bus :
         publisher[i] \in RadioNodes =>
           bus[i] = Call(nodes[publisher[i]].args.f,
                         nodes[publisher[i]].args.value)
    /\ \A n \in RadioNodes : Count(publisher, n) >= Count(clicked, n)

\* A radio node clicked twice, after another radio with another value and
\* another selection has been built and given an id.
C4_Witness ==
    /\ Len(clicked) = 2
    /\ clicked[1] = clicked[2]
    /\ clicked[1] \in RadioNodes
    /\ Len(bus) = 2
    /\ widget.kind = "radio"
    /\ args.value # nodes[clicked[1]].args.value
    /\ args.selected # nodes[clicked[1]].args.selected
    /\ widget.id = "x"

\* C5: a click on a rendered radio publishes exactly one message and requests
\* no re-render: after k clicks on a radio node it has published k messages
\* and requested 0 re-renders, while a checkbox node has requested one
\* re-render per click.
C5_RadioClickSchedulesNothing ==
    /\ [](\A n \in RadioNodes :
            /\ Count(publisher, n) = Count(clicked, n)
            /\ Count(requester, n) = 0)
    /\ [](\A n \in CheckboxNodes : Count(requester, n) = Count(clicked, n))
    /\ [](scheduled = Len(requester))
    /\ [][RadioClick =>
            /\ Len(effects') = 1
            /\ IsPublish(effects'[1])
            /\ scheduled' = scheduled]_vars

\* A radio node and a checkbox node have each been clicked once.
C5_Witness ==
    /\ Len(clicked) = 2
    /\ clicked[1] \in RadioNodes
    /\ clicked[2] \in CheckboxNodes
    /\ scheduled = 1
    /\ Len(bus) = 2

\* C6: the input of a node rendered from a Checkbox constructed with
\* is_checked = c carries the checked attribute iff c, whichever of width,
\* style, id were applied before rendering.
C6_CheckedAttributeIffIsChecked ==
    \A n \in CheckboxNodes :
      HasAttr(nodes[n].node.input.attrs, "checked") <=> nodes[n].args.is_checked

\* Two rendered checkboxes with width and id set, one checked and one not.
C6_Witness ==
    /\ Len(nodes) = 2
    /\ \A n \in DOMAIN nodes :
         /\ n \in CheckboxNodes
         /\ nodes[n].config.width = "Fill"
         /\ nodes[n].config.id = "x"
    /\ nodes[1].args.is_checked
    /\ ~nodes[2].args.is_checked
    /\ widget.style = "custom"

\* self and other agree on every field but those in `but`.
SameBut(self, other, but) ==
    /\ DOMAIN self = DOMAIN other
    /\ \A g \in DOMAIN self \ but : self[g] = other[g]

\* C7: builder methods that set different fields commute, and each changes
\* only its own field: for Checkbox width, style, id, for Radio style, name,
\* id, on every widget value the program reaches and every argument.
C7_BuildersCommuteAndFrame ==
    /\ widget.kind = "checkbox" =>
         \A w \in Lengths, s \in Styles, i \in Texts :
           /\ Checkbox_width(Checkbox_id(widget, i), w)
                = Checkbox_id(Checkbox_width(widget, w), i)
           /\ Checkbox_width(Checkbox_style(widget, s), w)
                = Checkbox_style(Checkbox_width(widget, w), s)
           /\ Checkbox_style(Checkbox_id(widget, i), s)
                = Checkbox_id(Checkbox_style(widget, s), i)
           /\ SameBut(Checkbox_width(widget, w), widget, {"width"})
           /\ SameBut(Checkbox_style(widget, s), widget, {"style"})
           /\ SameBut(Checkbox_id(widget, i), widget, {"id"})
           /\ Checkbox_width(widget, w).width = w
           /\ Checkbox_style(widget, s).style = s
           /\ Checkbox_id(widget, i).id = i
    /\ widget.kind = "radio" =>
         \A m \in Texts, s \in Styles, i \in Texts :
           /\ Radio_name(Radio_id(widget, i), m)
                = Radio_id(Radio_name(widget, m), i)
           /\ Radio_name(Radio_style(widget, s), m)
                = Radio_style(Radio_name(widget, m), s)
           /\ Radio_style(Radio_id(widget, i), s)
                = Radio_id(Radio_style(widget, s), i)
           /\ SameBut(Radio_name(widget, m), widget, {"name"})
           /\ SameBut(Radio_style(widget, s), widget, {"style"})
           /\ SameBut(Radio_id(widget, i), widget, {"id"})
           /\ Radio_name(widget, m).name = m
           /\ Radio_style(widget, s).style = s
           /\ Radio_id(widget, i).id = i

\* A checked checkbox on which width, style and id have all been set.
C7_Witness ==
    /\ widget.kind = "checkbox"
    /\ widget.is_checked
    /\ widget.on_toggle = "Clicked"
    /\ widget.width = "Fill"
    /\ widget.style = "custom"
    /\ widget.id = "x"

\* The markup of a node: everything but the listener.
Markup(node) ==
    [tag |-> node.tag, attrs |-> node.attrs,
     input |-> [tag |-> node.input.tag, attrs |-> node.input.attrs],
     text |-> node.text]

\* C8: two checkboxes with the same is_checked, label, id and width rendered
\* against the same registry have identical markup, two radios with the same
\* is_selected, label, id and name have identical markup, and so have two
\* renderings of one widget.
C8_RenderingIsDeterministic ==
    \A m, n \in DOMAIN nodes :
      (nodes[m].kind = nodes[n].kind /\ nodes[m].config = nodes[n].config)
        => Markup(nodes[m].node) = Markup(nodes[n].node)

\* Two checkboxes of the same configuration, built with different callbacks,
\* have been rendered.
C8_Witness ==
    /\ Len(nodes) = 2
    /\ nodes[1].kind = "checkbox" /\ nodes[2].kind = "checkbox"
    /\ nodes[1].config = nodes[2].config
    /\ nodes[1].args.f # nodes[2].args.f
    /\ nodes[1].config.id = "x"

DistinctValued(R) ==
    \A m, n \in R : m # n => nodes[m].args.value # nodes[n].args.value

CheckedIn(R) == {n \in R : HasAttr(nodes[n].node.input.attrs, "checked")}

\* C10: among rendered radios built with pairwise distinct values and the
\* same selection s, at most one input carries checked: exactly the radio of
\* value v when s = Some(v) and some radio has value v, none otherwise;
\* whatever their name attributes.
C10_AtMostOneRadioChecked ==
    \A s \in Options :
      \A R \in SUBSET {n \in RadioNodes : nodes[n].args.selected = s} :
        DistinctValued(R) =>
          /\ Cardinality(CheckedIn(R)) <= 1
          /\ CheckedIn(R) = {n \in R : IsSomeOf(s, nodes[n].args.value)}
          /\ (s.some /\ \E n \in R : nodes[n].args.value = s.val)
               => Cardinality(CheckedIn(R)) = 1
          /\ (~s.some \/ \A n \in R : nodes[n].args.value # s.val)
               => CheckedIn(R) = {}

\* Radios A and B of different names rendered with A selected: one checked.
C10_Witness ==
    /\ Len(nodes) = 2
    /\ RadioNodes = {1, 2}
    /\ nodes[1].args.value # nodes[2].args.value
    /\ nodes[1].args.selected = Some("A")
    /\ nodes[2].args.selected = Some("A")
    /\ nodes[1].config.name # nodes[2].config.name
    /\ Cardinality(CheckedIn({1, 2})) = 1

====
